---- MODULE Spec2Model ----
(***************************************************************************)
(* Model of the frame-lifecycle orchestration of the ray-tracing viewer:   *)
(* Simulator (src/src/simulator.cpp, simulator.hpp) and the parts of       *)
(* SimGUI (src/src/gui.cpp) that call into it.                             *)
(*                                                                         *)
(* Two kinds of processes run:                                             *)
(*   - the render/GUI thread, which calls the public entry points of       *)
(*     Simulator one after the other (rt.pc is its position inside the     *)
(*     handler it is executing, "idle" between two handlers);              *)
(*   - the detached background threads spawned by loadAssets (the pc of a  *)
(*     record of tasks is the position of that thread inside the lambda).  *)
(* Every step below is one statement (or one run of statements that touch  *)
(* no shared state) of the source; steps of different threads interleave.  *)
(***************************************************************************)
EXTENDS Integers, Sequences, FiniteSets, Bags, TLC

\* ------------------------------------------------------------------ bounds
\* Number of background load tasks the model lets run at the same time.
MaxTasks == 2
\* Upper end of the "Max Iteration" slider (1000 in the source), scaled down;
\* m_maxFrames after construction (100000 in the source) lies above it.
SliderMaxFrames == 2

\* ------------------------------------------------------- values and types
\* enum RndMethod
eRtxPipeline == "eRtxPipeline"
eRayQuery == "eRayQuery"
eNone == "eNone"
Kinds == {eRtxPipeline, eRayQuery}

\* Camera poses: the view matrix (named, not spelled out) and the field of
\* view. CamA and CamB differ in the matrix, CamA and CamC in the fov only.
CamA == [matrix |-> "M1", fov |-> 60]
CamB == [matrix |-> "M2", fov |-> 60]
CamC == [matrix |-> "M1", fov |-> 45]
Cams == {CamA, CamB}
\* The statics of updateFrame before its first call: refCamMatrix, fov = 0.
NoCam == [matrix |-> "M0", fov |-> 0]

\* VkRect2D: offset (x, y) and extent (width, height).
Rect(x, y, w, h) == [offset |-> [x |-> x, y |-> y], extent |-> [width |-> w, height |-> h]]
R800x600 == Rect(0, 20, 800, 600)
R801x600 == Rect(0, 20, 801, 600)
Regions == {R800x600, R801x600}
\* VkRect2D{}
NoRegion == Rect(0, 0, 0, 0)

\* File paths, as sequences of characters.
F_glb == <<"s", ".", "g", "l", "b">>
F_gltf == <<"s", ".", "g", "l", "t", "f">>
F_hdr == <<"e", ".", "h", "d", "r">>
F_txt == <<"n", ".", "t", "x", "t">>
F_empty == <<>>
Files == {F_glb, F_gltf, F_hdr, F_txt, F_empty}

\* Paths a load can be asked for, built from a stem and an extension.
Stems ==
    { <<"s">>,
      <<"/", "a", ".", "b", "/", "s">>,
      <<"s", ".", "h", "d", "r">>,
      <<"s", ".", "g", "l", "b">> }
ScenePaths == {st \o e : st \in Stems, e \in {<<".", "g", "l", "t", "f">>, <<".", "g", "l", "b">>}}
HdrPaths == {st \o <<".", "h", "d", "r">> : st \in Stems}
OtherPaths ==
    {st \o e : st \in Stems, e \in {<<".", "t", "x", "t">>, <<".", "G", "L", "B">>,
                                    <<".", "h", "d", "r", "x">>}}
    \cup { F_empty, <<"n">>, <<"/", "a", ".", "h", "d", "r", "/", "n">>,
           <<"/", "a", "/", ".", "h", "d", "r">>, <<".", "g", "l", "b">>, <<".", ".">> }
Paths == ScenePaths \cup HdrPaths \cup OtherPaths

\* Position of the last "." of s, 0 when there is none.
RECURSIVE LastDot(_, _)
LastDot(s, i) ==
    IF i = 0 THEN 0
    ELSE IF s[i] = "." THEN i
    ELSE LastDot(s, i - 1)

\* Position of the last "/" of s, 0 when there is none.
RECURSIVE LastSlash(_, _)
LastSlash(s, i) ==
    IF i = 0 THEN 0
    ELSE IF s[i] = "/" THEN i
    ELSE LastSlash(s, i - 1)

\* fs::path::filename(): what follows the last directory separator.
Filename(s) == SubSeq(s, LastSlash(s, Len(s)) + 1, Len(s))

\* fs::path(sfile).extension().string(): the text of the file name from its
\* last "." on; empty when the file name has no ".", when its only "." is
\* its first character, and for the file names "." and "..".
Extension(s) ==
    LET n == Filename(s)
        d == LastDot(n, Len(n))
    IN IF d <= 1 \/ n = <<".", ".">> THEN <<>> ELSE SubSeq(n, d, Len(n))

\* Mutation of IsSceneExt: ".glb" is not taken for a scene.
IsSceneExt_GltfOnly(e) == e = <<".", "g", "l", "t", "f">>

IsSceneExt(e) == e = <<".", "g", "l", "t", "f">> \/ e = <<".", "g", "l", "b">>
IsHdrExt(e) == e = <<".", "h", "d", "r">>

VARIABLES
    m_busy,          \* Simulator::m_busy
    m_rtxState,      \* Simulator::m_rtxState (the push state): [frame]
    m_maxFrames,     \* Simulator::m_maxFrames
    m_rndMethod,     \* Simulator::m_rndMethod
    created,         \* per renderer of m_pRender: it holds created GPU state
    m_renderRegion,  \* Simulator::m_renderRegion
    cam,             \* CameraManip's view matrix and fov
    refCam,          \* updateFrame's statics refCamMatrix and fov
    gpuInFlight,     \* submitted GPU work has not completed
    rt,              \* the render/GUI thread: position and locals
    tasks,           \* the running background load tasks (a bag: threads have no names)
    user,            \* what the user of this run does: [loads, cams, regions]
    m_descaling,     \* Simulator::m_descaling
    m_descalingLevel,\* Simulator::m_descalingLevel
    ran,             \* what the renderer's run() received last: [frame, size], or NoRun
    since,           \* history: [steps, runs], the updateFrame calls (counted in the
                     \* frame loop alone) and the dispatches since the last reset
    m_sunAndSky,     \* Simulator::m_sunAndSky: [y_is_up, in_use]
    up,              \* CameraManip's up vector
    headers,         \* the collapsing headers of the "Settings" panel that are open
    last,            \* history: the handler that ran last, what it was given
                     \* and what it called
    m_inputs         \* AppBase::m_inputs: the mouse buttons that are held

\* The variables of the panels and the history of the handler calls.
inVars == <<m_sunAndSky, up, headers, last, m_inputs>>

\* The variables of de-scaling and the history of the dispatches.
seqVars == <<m_descaling, m_descalingLevel, ran, since, inVars>>

vars == <<m_busy, m_rtxState, m_maxFrames, m_rndMethod, created, m_renderRegion,
          cam, refCam, gpuInFlight, rt, tasks, user, seqVars>>

NoRun == [frame |-> -2, size |-> <<0, 0>>]
NoneSince == [steps |-> 0, runs |-> 0]

UpY == <<0, 1, 0>>
UpZ == <<0, 0, 1>>
Ups == {UpY, UpZ}

\* The initialiser of m_sunAndSky: y_is_up 1, in_use 0.
SunAndSkyInit == [y_is_up |-> 1, in_use |-> 0]

\* No handler has been recorded.
NoCall == [op |-> "none"]

\* The render thread between two handlers.
RtIdle == [pc |-> "idle", ret |-> "idle", method |-> eNone,
           changed |-> FALSE, local |-> 0, log |-> <<>>]

\* A background task as loadAssets spawns it.
NewTask(f) == [pc |-> "start", sfile |-> f, kind |-> "none", resets |-> 0, calls |-> <<>>]

NumTasks == BagCardinality(tasks)
RunningTasks == BagToSet(tasks)

\* tasks with the task in state r moved to state r2 / ended.
Moved(r, r2) == (tasks (-) SetToBag({r})) (+) SetToBag({r2})
Ended(r) == tasks (-) SetToBag({r})

\* The users the model runs with. One drops and opens files while loads are
\* still running and leaves camera and window alone; one moves the camera
\* and the window and requests a load only when none is running; one does
\* the same with camera and window left alone, and has the dispatches since
\* the last reset counted.
Users ==
    { [loads |-> MaxTasks, cams |-> {CamA}, regions |-> {R800x600}, counted |-> FALSE],
      [loads |-> 1, cams |-> Cams, regions |-> Regions, counted |-> FALSE],
      [loads |-> 1, cams |-> {CamA}, regions |-> {R800x600}, counted |-> TRUE] }

\* The history of the concurrent runs is kept for the user that has it counted.
Counted(s) == IF user.counted THEN s ELSE since

Init ==
    /\ m_busy = FALSE
    /\ m_rtxState = [frame |-> 0]
    /\ m_maxFrames = SliderMaxFrames + 1
    /\ m_rndMethod = eNone
    /\ created = [k \in Kinds |-> FALSE]
    /\ m_renderRegion = NoRegion
    /\ cam = CamA
    /\ refCam = NoCam
    /\ gpuInFlight = FALSE
    /\ rt = RtIdle
    /\ tasks = EmptyBag
    /\ user \in Users
    /\ m_descaling = FALSE
    /\ m_descalingLevel = 1
    /\ ran = NoRun
    /\ since = NoneSince
    /\ m_sunAndSky = SunAndSkyInit
    /\ up = UpY
    /\ headers = {}
    /\ last = NoCall
    /\ m_inputs = {}

\* Mutation of InFrameLoop: frames and callbacks run before the first
\* renderer is created.
InFrameLoop_Always == TRUE

\* The frame loop and the window callbacks run once main's setup has created
\* the first renderer: renderScene dereferences m_pRender[m_rndMethod].
InFrameLoop == m_rndMethod # eNone

\* Return from the handler the render thread is in, to rt.ret.
Return(r) ==
    IF r.ret = "idle" THEN RtIdle
    ELSE [RtIdle EXCEPT !.pc = r.ret, !.changed = r.changed]

\* The render thread enters a handler at position p.
Enter(p) == [RtIdle EXCEPT !.pc = p]

\* Mutation of ResetFrameOf: the frame is left as it is.
ResetFrameOf_Kept(s) == s

\* Simulator::resetFrame applied to the push state.
ResetFrameOf(s) == [s EXCEPT !.frame = -1]

\* The model runs at most user.loads background tasks at a time.
HasFreeSlot == NumTasks < user.loads

\* ------------------------------------------------- the GPU (external)
\* Submitted work completes.
GpuComplete ==
    /\ gpuInFlight
    /\ gpuInFlight' = FALSE
    /\ UNCHANGED <<m_busy, m_rtxState, m_maxFrames, m_rndMethod, created,
                   m_renderRegion, cam, refCam, rt, tasks, user, seqVars>>

\* ------------------------------------------------- Simulator::createRender
\* main's setup creates the first renderer before the frame loop starts.
Setup ==
    /\ rt.pc = "idle"
    /\ m_rndMethod = eNone
    /\ \E k \in Kinds : rt' = [Enter("cr_check") EXCEPT !.method = k]
    /\ UNCHANGED <<m_busy, m_rtxState, m_maxFrames, m_rndMethod, created,
                   m_renderRegion, cam, refCam, gpuInFlight, tasks, user, seqVars>>

\* Mutation of CrCheck: the early return on method == m_rndMethod is missing.
CrCheck_NoEarlyReturn ==
    /\ rt.pc = "cr_check"
    /\ rt' = IF m_rndMethod # eNone THEN [rt EXCEPT !.pc = "cr_idle"]
             ELSE [rt EXCEPT !.pc = "cr_set"]
    /\ UNCHANGED <<m_busy, m_rtxState, m_maxFrames, m_rndMethod, created,
                   m_renderRegion, cam, refCam, gpuInFlight, tasks, user, seqVars>>

\* if (method == m_rndMethod) return;  ...  if (m_rndMethod != eNone)
CrCheck ==
    /\ rt.pc = "cr_check"
    /\ rt' = IF rt.method = m_rndMethod THEN Return(rt)
             ELSE IF m_rndMethod # eNone THEN [rt EXCEPT !.pc = "cr_idle"]
             ELSE [rt EXCEPT !.pc = "cr_set"]
    /\ UNCHANGED <<m_busy, m_rtxState, m_maxFrames, m_rndMethod, created,
                   m_renderRegion, cam, refCam, gpuInFlight, tasks, user, seqVars>>

\* Mutation of CrIdle: the old renderer is destroyed without the idle wait.
CrIdle_Skipped ==
    /\ rt.pc = "cr_idle"
    /\ rt' = [rt EXCEPT !.pc = "cr_destroy"]
    /\ UNCHANGED <<m_busy, m_rtxState, m_maxFrames, m_rndMethod, created,
                   m_renderRegion, cam, refCam, gpuInFlight, tasks, user, seqVars>>

\* vkDeviceWaitIdle(m_device);
CrIdle ==
    /\ rt.pc = "cr_idle"
    /\ gpuInFlight' = FALSE
    /\ rt' = [rt EXCEPT !.pc = "cr_destroy", !.log = Append(@, <<"idle">>)]
    /\ UNCHANGED <<m_busy, m_rtxState, m_maxFrames, m_rndMethod, created,
                   m_renderRegion, cam, refCam, tasks, user, seqVars>>

\* m_pRender[m_rndMethod]->destroy();
CrDestroy ==
    /\ rt.pc = "cr_destroy"
    /\ created' = [created EXCEPT ![m_rndMethod] = FALSE]
    /\ rt' = [rt EXCEPT !.pc = "cr_set", !.log = Append(@, <<"destroy", m_rndMethod>>)]
    /\ UNCHANGED <<m_busy, m_rtxState, m_maxFrames, m_rndMethod,
                   m_renderRegion, cam, refCam, gpuInFlight, tasks, user, seqVars>>

\* m_rndMethod = method;
CrSet ==
    /\ rt.pc = "cr_set"
    /\ m_rndMethod' = rt.method
    /\ rt' = [rt EXCEPT !.pc = "cr_create", !.log = Append(@, <<"activate", rt.method>>)]
    /\ UNCHANGED <<m_busy, m_rtxState, m_maxFrames, created,
                   m_renderRegion, cam, refCam, gpuInFlight, tasks, user, seqVars>>

\* m_pRender[m_rndMethod]->create(...);
CrCreate ==
    /\ rt.pc = "cr_create"
    /\ created' = [created EXCEPT ![m_rndMethod] = TRUE]
    /\ rt' = Return(rt)
    /\ UNCHANGED <<m_busy, m_rtxState, m_maxFrames, m_rndMethod,
                   m_renderRegion, cam, refCam, gpuInFlight, tasks, user, seqVars>>

\* --------------------------------------------------- Simulator::loadAssets
\* m_busy = true;
LaBusy ==
    /\ rt.pc = "la_busy"
    /\ m_busy' = TRUE
    /\ rt' = [rt EXCEPT !.pc = "la_idle", !.log = Append(@, <<"busy">>)]
    /\ UNCHANGED <<m_rtxState, m_maxFrames, m_rndMethod, created,
                   m_renderRegion, cam, refCam, gpuInFlight, tasks, user, seqVars>>

\* Mutation of LaIdle: the task is spawned without the idle wait.
LaIdle_Skipped ==
    /\ rt.pc = "la_idle"
    /\ rt' = [rt EXCEPT !.pc = "la_spawn"]
    /\ UNCHANGED <<m_busy, m_rtxState, m_maxFrames, m_rndMethod, created,
                   m_renderRegion, cam, refCam, gpuInFlight, tasks, user, seqVars>>

\* vkDeviceWaitIdle(m_device);
LaIdle ==
    /\ rt.pc = "la_idle"
    /\ gpuInFlight' = FALSE
    /\ rt' = [rt EXCEPT !.pc = "la_spawn", !.log = Append(@, <<"idle">>)]
    /\ UNCHANGED <<m_busy, m_rtxState, m_maxFrames, m_rndMethod, created,
                   m_renderRegion, cam, refCam, tasks, user, seqVars>>

\* std::thread([&, sfile]() {...}).detach(); nothing reads the path before
\* the task does, so the model draws it here.
LaSpawn ==
    /\ rt.pc = "la_spawn"
    /\ \E f \in Files : tasks' = tasks (+) SetToBag({NewTask(f)})
    /\ rt' = Return(rt)
    /\ UNCHANGED <<m_busy, m_rtxState, m_maxFrames, m_rndMethod, created,
                   m_renderRegion, cam, refCam, gpuInFlight, user, seqVars>>

\* Simulator::onFileDrop
OnFileDrop ==
    /\ rt.pc = "idle"
    /\ InFrameLoop
    /\ IF m_busy THEN rt' = rt
       ELSE HasFreeSlot /\ rt' = Enter("la_busy")
    /\ UNCHANGED <<m_busy, m_rtxState, m_maxFrames, m_rndMethod, created,
                   m_renderRegion, cam, refCam, gpuInFlight, tasks, user, seqVars>>

\* -------------------------------------------------- Simulator::updateFrame
\* Mutation of CamChanged: the field of view is not compared.
CamChanged_MatrixOnly(ref, c) == ref.matrix # c.matrix

\* memcmp(&refCamMatrix.a00, &m.a00, sizeof(nvmath::mat4f)) != 0 || f != fov
CamChanged(ref, c) == ref.matrix # c.matrix \/ c.fov # ref.fov

\* Where the render thread stands in main's frame loop once updateFrame has
\* returned: renderScene is what it calls next.
AfterUpdateFrame == "loop_render"

\* Mutation of CanAdvance: the frame stops one short of m_maxFrames.
CanAdvance_OneShort(s, max) == s.frame < max - 1

\* if (m_rtxState.frame < m_maxFrames)
CanAdvance(s, max) == s.frame < max

\* The comparison of the camera with the statics, and its resetFrame.
UpdateFrameCall ==
    /\ rt.pc = "idle"
    /\ InFrameLoop
    /\ IF CamChanged(refCam, cam)
       THEN /\ m_rtxState' = ResetFrameOf(m_rtxState)
            /\ refCam' = cam
            /\ since' = Counted(NoneSince)
            /\ rt' = [Enter("uf_test") EXCEPT !.ret = AfterUpdateFrame,
                                              !.log = << <<"reset">> >>]
       ELSE /\ UNCHANGED <<m_rtxState, refCam, since>>
            /\ rt' = [Enter("uf_test") EXCEPT !.ret = AfterUpdateFrame]
    /\ UNCHANGED <<m_busy, m_maxFrames, m_rndMethod, created,
                   m_renderRegion, cam, gpuInFlight, tasks, user,
                   m_descaling, m_descalingLevel, ran,
                   inVars>>

\* Mutation of UfTest: after the reset of a camera change the increment is
\* skipped ("reset, otherwise increment").
UfTest_ElseOfReset ==
    /\ rt.pc = "uf_test"
    /\ rt' = IF m_rtxState.frame < m_maxFrames /\ rt.log = <<>>
             THEN [rt EXCEPT !.pc = "uf_inc", !.local = m_rtxState.frame]
             ELSE Return(rt)
    /\ UNCHANGED <<m_busy, m_rtxState, m_maxFrames, m_rndMethod, created,
                   m_renderRegion, cam, refCam, gpuInFlight, tasks, user, seqVars>>

\* Mutation of UfTest: the increment is not capped by m_maxFrames.
UfTest_NoCap ==
    /\ rt.pc = "uf_test"
    /\ rt' = [rt EXCEPT !.pc = "uf_inc", !.local = m_rtxState.frame]
    /\ UNCHANGED <<m_busy, m_rtxState, m_maxFrames, m_rndMethod, created,
                   m_renderRegion, cam, refCam, gpuInFlight, tasks, user, seqVars>>

\* if (m_rtxState.frame < m_maxFrames): the read of m_rtxState.frame++
UfTest ==
    /\ rt.pc = "uf_test"
    /\ rt' = IF CanAdvance(m_rtxState, m_maxFrames)
             THEN [rt EXCEPT !.pc = "uf_inc", !.local = m_rtxState.frame]
             ELSE Return(rt)
    /\ UNCHANGED <<m_busy, m_rtxState, m_maxFrames, m_rndMethod, created,
                   m_renderRegion, cam, refCam, gpuInFlight, tasks, user, seqVars>>

\* m_rtxState.frame++: the write of the value read, plus one
UfInc ==
    /\ rt.pc = "uf_inc"
    /\ m_rtxState' = [m_rtxState EXCEPT !.frame = rt.local + 1]
    /\ rt' = Return(rt)
    /\ UNCHANGED <<m_busy, m_maxFrames, m_rndMethod, created,
                   m_renderRegion, cam, refCam, gpuInFlight, tasks, user, seqVars>>

\* -------------------------------------------------- Simulator::renderScene
\* Mutation of RenderSceneCall: the m_busy test is missing.
RenderSceneCall_Unguarded ==
    /\ rt.pc = AfterUpdateFrame
    /\ rt' = Enter("rs_frame")
    /\ UNCHANGED <<m_busy, m_rtxState, m_maxFrames, m_rndMethod, created,
                   m_renderRegion, cam, refCam, gpuInFlight, tasks, user, seqVars>>

\* if (m_busy) ...
RenderSceneCall ==
    /\ rt.pc = AfterUpdateFrame
    /\ rt' = IF m_busy THEN Enter("rs_busy") ELSE Enter("rs_frame")
    /\ UNCHANGED <<m_busy, m_rtxState, m_maxFrames, m_rndMethod, created,
                   m_renderRegion, cam, refCam, gpuInFlight, tasks, user, seqVars>>

\* { m_gui->showBusyWindow(); return; }
RsBusy ==
    /\ rt.pc = "rs_busy"
    /\ rt' = Return(rt)
    /\ UNCHANGED <<m_busy, m_rtxState, m_maxFrames, m_rndMethod, created,
                   m_renderRegion, cam, refCam, gpuInFlight, tasks, user, seqVars>>

\* if (m_rtxState.frame >= m_maxFrames) return;
RsFrame ==
    /\ rt.pc = "rs_frame"
    /\ rt' = IF m_rtxState.frame >= m_maxFrames THEN Return(rt)
             ELSE [rt EXCEPT !.pc = "rs_run"]
    /\ UNCHANGED <<m_busy, m_rtxState, m_maxFrames, m_rndMethod, created,
                   m_renderRegion, cam, refCam, gpuInFlight, tasks, user, seqVars>>

\* m_pRender[m_rndMethod]->setPushContants(m_rtxState); ...->run(cmdBuf, ...)
RsRun ==
    /\ rt.pc = "rs_run"
    /\ gpuInFlight' = TRUE
    /\ since' = Counted([since EXCEPT !.runs = @ + 1])
    /\ rt' = Return(rt)
    /\ UNCHANGED <<m_busy, m_rtxState, m_maxFrames, m_rndMethod, created,
                   m_renderRegion, cam, refCam, tasks, user,
                   m_descaling, m_descalingLevel, ran,
                   inVars>>

\* ----------------------------------------------------- Simulator::onResize
OnResizeCall ==
    /\ rt.pc = "idle"
    /\ InFrameLoop
    /\ rt' = Enter("rz_update")
    /\ UNCHANGED <<m_busy, m_rtxState, m_maxFrames, m_rndMethod, created,
                   m_renderRegion, cam, refCam, gpuInFlight, tasks, user, seqVars>>

\* m_offscreen.update(m_size); resetFrame();
RzUpdate ==
    /\ rt.pc = "rz_update"
    /\ m_rtxState' = ResetFrameOf(m_rtxState)
    /\ since' = Counted(NoneSince)
    /\ rt' = Return(rt)
    /\ UNCHANGED <<m_busy, m_maxFrames, m_rndMethod, created,
                   m_renderRegion, cam, refCam, gpuInFlight, tasks, user,
                   m_descaling, m_descalingLevel, ran,
                   inVars>>

\* --------------------------------------------------- Simulator::onKeyboard
Keys == {"HOME", "F", "SPACE", "R", "OTHER"}

OnKeyboard ==
    /\ rt.pc = "idle"
    /\ InFrameLoop
    /\ \E key \in Keys, release \in BOOLEAN, c \in user.cams :
          IF m_busy \/ release
          THEN UNCHANGED <<rt, cam, m_rtxState, since>>
          ELSE CASE key \in {"HOME", "F"} ->   \* fitCamera
                      cam' = c /\ UNCHANGED <<rt, m_rtxState, since>>
                 [] key = "SPACE" ->           \* screenPicking()
                      rt' = Enter("pk_run") /\ UNCHANGED <<cam, m_rtxState, since>>
                 [] key = "R" ->               \* resetFrame()
                      m_rtxState' = ResetFrameOf(m_rtxState) /\ since' = Counted(NoneSince)
                      /\ UNCHANGED <<rt, cam>>
                 [] OTHER -> UNCHANGED <<rt, cam, m_rtxState, since>>
    /\ UNCHANGED <<m_busy, m_maxFrames, m_rndMethod, created,
                   m_renderRegion, refCam, gpuInFlight, tasks, user,
                   m_descaling, m_descalingLevel, ran,
                   inVars>>

\* ------------------------------------------------ Simulator::screenPicking
\* m_picker.run(cmdBuf, pickInfo); sc.submitAndWait(cmdBuf); then either
\* "Nothing Hit" or CameraManip.setLookat(eye, worldPos, up, false).
PkRun ==
    /\ rt.pc = "pk_run"
    /\ \E hit \in BOOLEAN, c \in user.cams :
          cam' = IF hit THEN c ELSE cam
    /\ rt' = Return(rt)
    /\ UNCHANGED <<m_busy, m_rtxState, m_maxFrames, m_rndMethod, created,
                   m_renderRegion, refCam, gpuInFlight, tasks, user, seqVars>>

\* ---------------------------------------------------- Simulator::renderGui
\* The controls of the "Settings" panel: in one pass the user operates at
\* most one of them.
Controls == {"none", "camera", "maxFrames", "other", "tonemapper", "anyhit", "selection"}

\* m_gui->titleBar(); m_gui->render(profiler): changed |= guiCamera() |
\* guiRayTracing() | guiTonemapper() | guiEnvironment(), up to the control
\* that calls into the renderers.
RenderGuiCall ==
    /\ rt.pc = "idle"
    /\ InFrameLoop
    /\ \E ctl \in Controls, c \in user.cams, v \in 1..SliderMaxFrames, k \in Kinds :
          CASE ctl = "camera" ->       \* ImGuiH::CameraWidget()
                 /\ c # cam
                 /\ cam' = c
                 /\ rt' = [Enter("gui_end") EXCEPT !.changed = TRUE]
                 /\ UNCHANGED <<m_maxFrames>>
            [] ctl = "maxFrames" ->    \* Slider "Max Iteration"
                 /\ v # m_maxFrames
                 /\ m_maxFrames' = v
                 /\ rt' = [Enter("gui_end") EXCEPT !.changed = TRUE]
                 /\ UNCHANGED <<cam>>
            [] ctl = "other" ->        \* any other slider of guiRayTracing, guiEnvironment
                 /\ rt' = [Enter("gui_end") EXCEPT !.changed = TRUE]
                 /\ UNCHANGED <<cam, m_maxFrames>>
            [] ctl = "tonemapper" ->   \* guiTonemapper returns false
                 /\ rt' = Enter("gui_end")
                 /\ UNCHANGED <<cam, m_maxFrames>>
            [] ctl = "anyhit" ->       \* Checkbox "Enable AnyHit"
                 /\ m_rndMethod = eRtxPipeline
                 /\ rt' = Enter("gui_anyhit")
                 /\ UNCHANGED <<cam, m_maxFrames>>
            [] ctl = "selection" ->    \* Selection "Rendering Pipeline": createRender(method)
                 /\ rt' = [Enter("cr_check") EXCEPT !.ret = "gui_sel", !.method = k]
                 /\ UNCHANGED <<cam, m_maxFrames>>
            [] OTHER ->
                 /\ rt' = Enter("gui_end")
                 /\ UNCHANGED <<cam, m_maxFrames>>
    /\ UNCHANGED <<m_busy, m_rtxState, m_rndMethod, created,
                   m_renderRegion, refCam, gpuInFlight, tasks, user, seqVars>>

\* vkDeviceWaitIdle(sim_->m_device); rtx->useAnyHit(bAnyHit); changed = true;
GuiAnyHit ==
    /\ rt.pc = "gui_anyhit"
    /\ gpuInFlight' = FALSE
    /\ rt' = [rt EXCEPT !.pc = "gui_end", !.changed = TRUE]
    /\ UNCHANGED <<m_busy, m_rtxState, m_maxFrames, m_rndMethod, created,
                   m_renderRegion, cam, refCam, tasks, user, seqVars>>

\* after sim_->createRender(method): changed = true;
GuiSelDone ==
    /\ rt.pc = "gui_sel"
    /\ rt' = [rt EXCEPT !.pc = "gui_end", !.changed = TRUE]
    /\ UNCHANGED <<m_busy, m_rtxState, m_maxFrames, m_rndMethod, created,
                   m_renderRegion, cam, refCam, gpuInFlight, tasks, user, seqVars>>

\* The int32_t/uint32_t fields of a VkRect2D in memory order.
RectWords(r) == <<r.offset.x, r.offset.y, r.extent.width, r.extent.height>>

\* memcmp over two equally long runs of words: 0 when all are equal, else the
\* sign at the first difference.
RECURSIVE Memcmp(_, _)
Memcmp(a, b) ==
    IF a = <<>> THEN 0
    ELSE IF Head(a) < Head(b) THEN -1
    ELSE IF Head(a) > Head(b) THEN 1
    ELSE Memcmp(Tail(a), Tail(b))

\* Mutation of SetRenderRegionOf: only the extents are compared.
SetRenderRegionOf_ExtentOnly(s, old, r) ==
    IF old.extent # r.extent THEN ResetFrameOf(s) ELSE s

\* Simulator::setRenderRegion applied to the push state s with the stored
\* region old and the new region r.
SetRenderRegionOf(s, old, r) ==
    IF Memcmp(RectWords(old), RectWords(r)) # 0 THEN ResetFrameOf(s) ELSE s

\* if (changed) sim_->resetFrame(); ... sim_->setRenderRegion(...)
GuiEnd ==
    /\ rt.pc = "gui_end"
    /\ \E r \in user.regions :
          /\ m_rtxState' = SetRenderRegionOf(
                              IF rt.changed THEN ResetFrameOf(m_rtxState) ELSE m_rtxState,
                              m_renderRegion, r)
          /\ m_renderRegion' = r
          /\ since' = IF rt.changed \/ Memcmp(RectWords(m_renderRegion), RectWords(r)) # 0
                      THEN Counted(NoneSince) ELSE since
    /\ rt' = [rt EXCEPT !.pc = "gui_menu", !.changed = FALSE]
    /\ UNCHANGED <<m_busy, m_maxFrames, m_rndMethod, created,
                   cam, refCam, gpuInFlight, tasks, user,
                   m_descaling, m_descalingLevel, ran,
                   inVars>>

\* SimGUI::menuBar: "Open GLTF Scene" / "Open HDR Environment" call
\* sim_->loadAssets(openFilename(...)) with whatever path the dialog returns
\* (the empty path when it is cancelled).
GuiMenu ==
    /\ rt.pc = "gui_menu"
    /\ \/ rt' = [rt EXCEPT !.pc = "gui_dbl"]
       \/ /\ HasFreeSlot
          /\ rt' = [rt EXCEPT !.pc = "la_busy", !.ret = "gui_dbl"]
    /\ UNCHANGED <<m_busy, m_rtxState, m_maxFrames, m_rndMethod, created,
                   m_renderRegion, cam, refCam, gpuInFlight, tasks, user, seqVars>>

\* if (ImGui::IsMouseDoubleClicked(...) && !WantCaptureKeyboard) screenPicking();
GuiDoubleClick ==
    /\ rt.pc = "gui_dbl"
    /\ \/ rt' = RtIdle
       \/ rt' = Enter("pk_run")
    /\ UNCHANGED <<m_busy, m_rtxState, m_maxFrames, m_rndMethod, created,
                   m_renderRegion, cam, refCam, gpuInFlight, tasks, user, seqVars>>

\* ------------------------------------- the background task of loadAssets
\* The asset kind of a path: extension == ".gltf" || extension == ".glb",
\* extension == ".hdr", or neither.
KindOf(f) ==
    LET e == Extension(f)
    IN IF IsSceneExt(e) THEN "scene" ELSE IF IsHdrExt(e) THEN "hdr" ELSE "other"

\* KindOf of every path of the model, computed once.
KindOfPath == [f \in Files \cup Paths |-> KindOf(f)]

\* Mutation of FirstPc: an HDR load goes through the scene path as well.
FirstPc_HdrRebuilds(k) == IF k = "other" THEN "reset" ELSE "load"

\* Mutation of FirstPc: the scene branch is the else of the HDR test.
FirstPc_ElseScene(k) == IF k = "hdr" THEN "hdr" ELSE "load"

\* The first statement of the lambda that touches shared state, per kind.
FirstPc(k) == IF k = "scene" THEN "load" ELSE IF k = "hdr" THEN "hdr" ELSE "reset"

\* std::string extension = fs::path(sfile).extension().string(); the model
\* keeps only the kind from here on.
TaskStart(r) ==
    /\ r.pc = "start"
    /\ LET k == KindOfPath[r.sfile]
       IN tasks' = Moved(r, [r EXCEPT !.pc = FirstPc(k), !.kind = k, !.sfile = F_empty])
    /\ UNCHANGED <<m_busy, m_rtxState, m_maxFrames, m_rndMethod, created,
                   m_renderRegion, cam, refCam, gpuInFlight, rt, user, seqVars>>

\* Mutation of LoadSceneBody: the acceleration structure is built from the
\* scene of before the load.
LoadSceneBody_AccelFirst ==
    <<"m_accelStruct.create", "m_scene.load", "m_picker.setTlas", "resetFrame">>

\* The statements of Simulator::loadScene in their order.
LoadSceneBody ==
    <<"m_scene.load", "m_accelStruct.create", "m_picker.setTlas", "resetFrame">>

\* loadScene: m_scene.load(filename); m_accelStruct.create(...);
\* m_picker.setTlas(...); resetFrame();
TaskLoadScene(r) ==
    /\ r.pc = "load"
    /\ m_rtxState' = ResetFrameOf(m_rtxState)
    /\ since' = Counted(NoneSince)
    /\ tasks' = Moved(r, [r EXCEPT !.pc = "destroy", !.resets = @ + 1,
                                    !.calls = Append(@, "loadScene")])
    /\ UNCHANGED <<m_busy, m_maxFrames, m_rndMethod, created,
                   m_renderRegion, cam, refCam, gpuInFlight, rt, user,
                   m_descaling, m_descalingLevel, ran,
                   inVars>>

\* for (auto& r : m_pRender) r->destroy();
TaskDestroy(r) ==
    /\ r.pc = "destroy"
    /\ created' = [k \in Kinds |-> FALSE]
    /\ tasks' = Moved(r, [r EXCEPT !.pc = "create", !.calls = Append(@, "destroy")])
    /\ UNCHANGED <<m_busy, m_rtxState, m_maxFrames, m_rndMethod,
                   m_renderRegion, cam, refCam, gpuInFlight, rt, user, seqVars>>

\* m_pRender[m_rndMethod]->create(...);
TaskCreate(r) ==
    /\ r.pc = "create"
    /\ created' = [created EXCEPT ![m_rndMethod] = TRUE]
    /\ tasks' = Moved(r, [r EXCEPT !.pc = "reset", !.calls = Append(@, "create")])
    /\ UNCHANGED <<m_busy, m_rtxState, m_maxFrames, m_rndMethod,
                   m_renderRegion, cam, refCam, gpuInFlight, rt, user, seqVars>>

\* loadEnvironmentHdr(sfile); updateHdrDescriptors();
TaskHdr(r) ==
    /\ r.pc = "hdr"
    /\ tasks' = Moved(r, [r EXCEPT !.pc = "reset",
                                    !.calls = <<"loadEnvironmentHdr", "updateHdrDescriptors">>])
    /\ UNCHANGED <<m_busy, m_rtxState, m_maxFrames, m_rndMethod, created,
                   m_renderRegion, cam, refCam, gpuInFlight, rt, user, seqVars>>

\* Mutation of TaskReset: the lambda ends without its resetFrame().
TaskReset_Skipped(r) ==
    /\ r.pc = "reset"
    /\ tasks' = Moved(r, [r EXCEPT !.pc = "clear"])
    /\ UNCHANGED <<m_busy, m_rtxState, m_maxFrames, m_rndMethod, created,
                   m_renderRegion, cam, refCam, gpuInFlight, rt, user, seqVars>>

\* Simulator::resetFrame();
TaskReset(r) ==
    /\ r.pc = "reset"
    /\ m_rtxState' = ResetFrameOf(m_rtxState)
    /\ since' = Counted(NoneSince)
    /\ tasks' = Moved(r, [r EXCEPT !.pc = "clear", !.resets = @ + 1])
    /\ UNCHANGED <<m_busy, m_maxFrames, m_rndMethod, created,
                   m_renderRegion, cam, refCam, gpuInFlight, rt, user,
                   m_descaling, m_descalingLevel, ran,
                   inVars>>

\* Mutation of TaskClear: the thread ends without m_busy = false.
TaskClear_BusyKept(r) ==
    /\ r.pc = "clear"
    /\ tasks' = Ended(r)
    /\ UNCHANGED <<m_busy, m_rtxState, m_maxFrames, m_rndMethod, created,
                   m_renderRegion, cam, refCam, gpuInFlight, rt, user, seqVars>>

\* m_busy = false; and the thread ends
TaskClear(r) ==
    /\ r.pc = "clear"
    /\ m_busy' = FALSE
    /\ tasks' = Ended(r)
    /\ UNCHANGED <<m_rtxState, m_maxFrames, m_rndMethod, created,
                   m_renderRegion, cam, refCam, gpuInFlight, rt, user, seqVars>>

TaskStep(r) ==
    \/ TaskStart(r)
    \/ TaskLoadScene(r)
    \/ TaskDestroy(r)
    \/ TaskCreate(r)
    \/ TaskHdr(r)
    \/ TaskReset(r)
    \/ TaskClear(r)

\* A step of the render thread inside a handler.
RtStep ==
    \/ CrCheck \/ CrIdle \/ CrDestroy \/ CrSet \/ CrCreate
    \/ LaBusy \/ LaIdle \/ LaSpawn
    \/ UfTest \/ UfInc
    \/ RsBusy \/ RsFrame \/ RsRun
    \/ RzUpdate
    \/ PkRun
    \/ GuiAnyHit \/ GuiSelDone \/ GuiEnd \/ GuiMenu \/ GuiDoubleClick

\* The render thread enters a handler: main's loop and the window callbacks.
RtCall ==
    \/ Setup
    \/ OnFileDrop
    \/ UpdateFrameCall
    \/ RenderSceneCall
    \/ OnResizeCall
    \/ OnKeyboard
    \/ RenderGuiCall

Next ==
    \/ RtCall
    \/ RtStep
    \/ \E r \in RunningTasks : TaskStep(r)
    \/ GpuComplete

Spec == Init /\ [][Next]_vars

\* ------------------------------------------------ one load session alone
\* The state in which loadAssets leaves the program when it has spawned the
\* task for path p and nothing else runs: m_busy set, the device idle.
LoadInit ==
    /\ m_busy = TRUE
    /\ m_rtxState \in {[frame |-> f] : f \in {-1, 0, SliderMaxFrames}}
    /\ m_maxFrames = SliderMaxFrames + 1
    /\ m_rndMethod \in Kinds
    /\ created = [k \in Kinds |-> k = m_rndMethod]
    /\ m_renderRegion = R800x600
    /\ cam = CamA
    /\ refCam = CamA
    /\ gpuInFlight = FALSE
    /\ rt = RtIdle
    /\ \E p \in Paths : tasks = SetToBag({NewTask(p)})
    /\ user = [loads |-> 1, cams |-> {CamA}, regions |-> {R800x600}, counted |-> FALSE]
    /\ m_descaling = FALSE
    /\ m_descalingLevel = 1
    /\ ran = NoRun
    /\ since = NoneSince
    /\ m_sunAndSky = SunAndSkyInit
    /\ up = UpY
    /\ headers = {}
    /\ last = NoCall
    /\ m_inputs = {}

LoadNext == \E r \in RunningTasks : TaskStep(r)

LoadSpec == LoadInit /\ [][LoadNext]_vars

\* ------------------------------------------- the frame loop with no load
\* The render thread alone: every handler runs from call to return with
\* nothing in between, so a handler is one step.

\* Upper end of the "De-scaling" slider.
MaxDescalingLevel == 8

\* updateFrame calls the model counts after a reset.
MaxSteps == SliderMaxFrames + 3

FullHD == Rect(0, 20, 1024, 768)
Narrow == Rect(0, 20, 7, 600)
Dot == Rect(0, 20, 1, 1)
MovedX == Rect(1, 20, 800, 600)
MovedY == Rect(0, 21, 800, 600)
R800x601 == Rect(0, 20, 800, 601)
CamD == [matrix |-> "M2", fov |-> 45]

\* The users of the frame loop: one resizes the viewport and de-scales, one
\* moves the camera and the viewport and sets "Max Iteration", one sets
\* "Max Iteration" to 10 and lets the image converge.
FrameUsers ==
    { [loads |-> 0, cams |-> {CamA}, regions |-> {FullHD, R800x600, Narrow, Dot},
       levels |-> 1..MaxDescalingLevel, maxes |-> {SliderMaxFrames + 1},
       steps |-> MaxSteps],
      [loads |-> 0, cams |-> {CamA, CamB, CamC, CamD},
       regions |-> {R800x600, R801x600, R800x601, MovedX, MovedY},
       levels |-> {1}, maxes |-> 1..SliderMaxFrames, steps |-> MaxSteps],
      [loads |-> 0, cams |-> {CamA}, regions |-> {R800x600},
       levels |-> {1}, maxes |-> {10}, steps |-> 12] }

\* The state after construction and main's setup.
FrameInit ==
    /\ m_busy = FALSE
    /\ m_rtxState = [frame |-> 0, size |-> <<0, 0>>]
    /\ m_maxFrames = SliderMaxFrames + 1
    /\ m_rndMethod \in Kinds
    /\ created = [k \in Kinds |-> k = m_rndMethod]
    /\ m_renderRegion = NoRegion
    /\ cam = CamA
    /\ refCam = NoCam
    /\ gpuInFlight = FALSE
    /\ rt = RtIdle
    /\ tasks = EmptyBag
    /\ user \in FrameUsers
    /\ m_descaling = FALSE
    /\ m_descalingLevel = 1
    /\ ran = NoRun
    /\ since = [steps |-> 1, runs |-> 0]
    /\ m_sunAndSky = SunAndSkyInit
    /\ up = UpY
    /\ headers = {}
    /\ last = NoCall
    /\ m_inputs = {}

\* m_rtxState.frame++ under its test.
AdvanceOf(s, max) == IF CanAdvance(s, max) THEN [s EXCEPT !.frame = @ + 1] ELSE s

\* Simulator::updateFrame from call to return.
SeqUpdateFrame ==
    /\ rt.pc = "idle"
    /\ LET changed == CamChanged(refCam, cam)
       IN /\ changed \/ since.steps < user.steps
          /\ m_rtxState' = AdvanceOf(IF changed THEN ResetFrameOf(m_rtxState)
                                      ELSE m_rtxState, m_maxFrames)
          /\ refCam' = IF changed THEN cam ELSE refCam
          /\ since' = IF changed THEN [steps |-> 1, runs |-> 0]
                      ELSE [since EXCEPT !.steps = @ + 1]
    /\ rt' = [RtIdle EXCEPT !.pc = AfterUpdateFrame]
    /\ UNCHANGED <<m_busy, m_maxFrames, m_rndMethod, created, m_renderRegion,
                   cam, gpuInFlight, tasks, user, m_descaling, m_descalingLevel, ran,
                   inVars>>

\* Mutation of RenderSizeOf: the division is applied whether or not
\* de-scaling is active.
RenderSizeOf_Always(extent, descaling, level) ==
    <<extent.width \div level, extent.height \div level>>

\* render_size: the extent, divided by the level while de-scaling.
RenderSizeOf(extent, descaling, level) ==
    IF descaling
    THEN <<extent.width \div level, extent.height \div level>>
    ELSE <<extent.width, extent.height>>

\* Simulator::renderScene from call to return.
SeqRenderScene ==
    /\ rt.pc = AfterUpdateFrame
    /\ rt' = RtIdle
    /\ IF m_busy \/ m_rtxState.frame >= m_maxFrames
       THEN UNCHANGED <<m_rtxState, ran, since, gpuInFlight>>
       ELSE LET size == RenderSizeOf(m_renderRegion.extent, m_descaling, m_descalingLevel)
            IN /\ m_rtxState' = [m_rtxState EXCEPT !.size = size]
               /\ ran' = [frame |-> m_rtxState.frame, size |-> size]
               /\ since' = [since EXCEPT !.runs = @ + 1]
               /\ gpuInFlight' = TRUE
    /\ UNCHANGED <<m_busy, m_maxFrames, m_rndMethod, created, m_renderRegion,
                   cam, refCam, tasks, user, m_descaling, m_descalingLevel,
                   inVars>>

\* Simulator::renderGui from call to return: the sliders "Max Iteration" and
\* "De-scaling" and the camera widget set changed, SimGUI::render resets the
\* frame if any did and then sets the render region; a double click may pick
\* and move the camera.
SeqRenderGui ==
    /\ rt.pc = "idle"
    /\ \E v \in user.maxes \cup {m_maxFrames}, l \in user.levels, c \in user.cams,
          r \in user.regions, widget \in BOOLEAN :
          LET changed == v # m_maxFrames \/ l # m_descalingLevel \/ (widget /\ c # cam)
              s1 == IF changed THEN ResetFrameOf(m_rtxState) ELSE m_rtxState
              s2 == SetRenderRegionOf(s1, m_renderRegion, r)
          IN /\ m_maxFrames' = v
             /\ m_descalingLevel' = l
             /\ cam' = c
             /\ m_rtxState' = s2
             /\ m_renderRegion' = r
             /\ since' = IF changed \/ Memcmp(RectWords(m_renderRegion), RectWords(r)) # 0
                         THEN NoneSince ELSE since
    /\ UNCHANGED <<m_busy, m_rndMethod, created, refCam, gpuInFlight, rt, tasks, user,
                   m_descaling, ran,
                   inVars>>

\* Simulator::onMouseMotion and Simulator::onMouseButton from call to return.
SeqMouse ==
    /\ rt.pc = "idle"
    /\ \E held \in BOOLEAN, release \in BOOLEAN, motion \in BOOLEAN :
          IF m_busy THEN UNCHANGED <<m_descaling, m_rtxState, since>>
          ELSE IF motion
          THEN /\ m_descaling' = (held \/ m_descaling)
               /\ UNCHANGED <<m_rtxState, since>>
          ELSE IF ~held /\ release /\ m_descaling
          THEN /\ m_descaling' = FALSE
               /\ m_rtxState' = ResetFrameOf(m_rtxState)
               /\ since' = NoneSince
          ELSE UNCHANGED <<m_descaling, m_rtxState, since>>
    /\ UNCHANGED <<m_busy, m_maxFrames, m_rndMethod, created, m_renderRegion, cam, refCam,
                   gpuInFlight, rt, tasks, user, m_descalingLevel, ran,
                   inVars>>

FrameNext ==
    \/ SeqUpdateFrame
    \/ SeqRenderScene
    \/ SeqRenderGui
    \/ SeqMouse

FrameSpec == FrameInit /\ [][FrameNext]_vars

\* ------------------------------------------- the handlers one at a time
\* The render thread's handlers from call to return, with the "Settings"
\* panel's headers and widgets, the keyboard, the picker and a load whose
\* task runs from start to end between two handlers.

Headers == {"Camera", "Ray Tracing", "Tonemapper", "Environment"}

\* One widget of each kind the panels hold.
Widgets == {"CameraWidget", "Max Iteration", "De-scaling", "Rendering Pipeline",
            "Brightness", "Use Sun & Sky"}

\* The header a widget is drawn under.
HeaderOf ==
    [w \in Widgets |->
        CASE w = "CameraWidget" -> "Camera"
          [] w \in {"Max Iteration", "De-scaling", "Rendering Pipeline"} -> "Ray Tracing"
          [] w = "Brightness" -> "Tonemapper"
          [] OTHER -> "Environment"]

\* Mutation of GuiRayTracingOf: the selection of the pipeline is not reported.
GuiRayTracingOf_SelectionSilent(edits) == edits \cap {"Max Iteration", "De-scaling"} # {}

\* What the panel functions return when the user has operated the widgets
\* edits in this pass.
GuiCameraOf(edits) == "CameraWidget" \in edits
GuiRayTracingOf(edits) ==
    edits \cap {"Max Iteration", "De-scaling", "Rendering Pipeline"} # {}
GuiEnvironmentOf(edits) == "Use Sun & Sky" \in edits

\* Mutation of GuiTonemapperOf: the panel returns its changed flag.
GuiTonemapperOf_Changed(edits) == "Brightness" \in edits

\* guiTonemapper: return false;  // no need to restart the renderer
GuiTonemapperOf(edits) == FALSE

\* SimGUI::render's changed: each open header ORs its panel's result in.
ChangedOf(open, edits) ==
    \/ "Camera" \in open /\ GuiCameraOf(edits)
    \/ "Ray Tracing" \in open /\ GuiRayTracingOf(edits)
    \/ "Tonemapper" \in open /\ GuiTonemapperOf(edits)
    \/ "Environment" \in open /\ GuiEnvironmentOf(edits)

\* Mutation of YIsUpOf: the value is derived whether or not the
\* "Environment" header is open.
YIsUpOf_Always(open, u, old) == IF u[2] = 1 THEN 1 ELSE 0

\* guiEnvironment: sunAndSky.y_is_up = (up.y == 1), run under the
\* "Environment" header alone.
YIsUpOf(open, u, old) ==
    IF "Environment" \in open THEN (IF u[2] = 1 THEN 1 ELSE 0) ELSE old

\* Mutation of CreateRenderOf: the renderer of before is not destroyed.
CreateRenderOf_NoDestroy(method, s) ==
    IF method = s.m_rndMethod THEN s
    ELSE [m_rndMethod |-> method, created |-> [s.created EXCEPT ![method] = TRUE]]

\* Simulator::createRender applied to s = [m_rndMethod, created].
CreateRenderOf(method, s) ==
    IF method = s.m_rndMethod THEN s
    ELSE LET destroyed == IF s.m_rndMethod # eNone
                          THEN [s.created EXCEPT ![s.m_rndMethod] = FALSE]
                          ELSE s.created
         IN [m_rndMethod |-> method, created |-> [destroyed EXCEPT ![method] = TRUE]]

\* Mutation of ScreenPickingOf: a miss sets the look-at as a hit does.
ScreenPickingOf_NoEarlyReturn(pick, c, old) == IF pick = "none" THEN old ELSE c

\* Simulator::screenPicking applied to the camera: "Nothing Hit" returns
\* before setLookat.
ScreenPickingOf(pick, c, old) == IF pick = "hit" THEN c ELSE old

\* Mutation of UniformCmdsOf: the m_busy test is missing.
UniformCmdsOf_Unguarded(busy) == <<"updateCamera", "vkCmdUpdateBuffer">>

\* What Simulator::updateUniformBuffer records into the command buffer.
UniformCmdsOf(busy) ==
    IF busy THEN <<>> ELSE <<"updateCamera", "vkCmdUpdateBuffer">>

\* The users of the handlers: one opens and closes the headers and operates
\* the widgets under them, one uses the keyboard, picks, switches the
\* renderer and loads files.
HandlerUsers ==
    { [loads |-> 0, cams |-> {CamA}, regions |-> {R800x600}, levels |-> {1},
       maxes |-> 1..SliderMaxFrames, steps |-> 3,
       headers |-> Headers, widgets |-> Widgets \ {"Rendering Pipeline", "De-scaling"},
       picks |-> {"none"}, keys |-> {}, files |-> {}],
      [loads |-> 1, cams |-> Cams, regions |-> {R800x600}, levels |-> {1},
       maxes |-> {SliderMaxFrames + 1}, steps |-> 2,
       headers |-> {"Ray Tracing"}, widgets |-> {"Rendering Pipeline"},
       picks |-> {"none", "hit", "miss"}, keys |-> Keys,
       files |-> {F_glb, F_hdr, F_txt}] }

\* The state after construction.
HandlerInit ==
    /\ m_busy = FALSE
    /\ m_rtxState = [frame |-> 0, size |-> <<0, 0>>]
    /\ m_maxFrames = SliderMaxFrames + 1
    /\ m_rndMethod = eNone
    /\ created = [k \in Kinds |-> FALSE]
    /\ m_renderRegion = NoRegion
    /\ cam = CamA
    /\ refCam = NoCam
    /\ gpuInFlight = FALSE
    /\ rt = RtIdle
    /\ tasks = EmptyBag
    /\ user \in HandlerUsers
    /\ m_descaling = FALSE
    /\ m_descalingLevel = 1
    /\ ran = NoRun
    /\ since = [steps |-> 1, runs |-> 0]
    /\ m_sunAndSky = SunAndSkyInit
    /\ up = UpY
    /\ headers = {}
    /\ last = NoCall
    /\ m_inputs = {}

\* main's setup: createRender for the first renderer.
SeqSetup ==
    /\ rt.pc = "idle"
    /\ m_rndMethod = eNone
    /\ \E k \in Kinds :
          LET s == CreateRenderOf(k, [m_rndMethod |-> m_rndMethod, created |-> created])
          IN /\ m_rndMethod' = s.m_rndMethod
             /\ created' = s.created
             /\ last' = [op |-> "createRender", method |-> k]
    /\ UNCHANGED <<m_busy, m_rtxState, m_maxFrames, m_renderRegion, cam, refCam,
                   gpuInFlight, rt, tasks, user, m_descaling, m_descalingLevel, ran,
                   since, m_sunAndSky, up, headers,
                   m_inputs>>

\* SimGUI::render and the double click of Simulator::renderGui from call to
\* return: the user clicks a header or operates widgets under open headers;
\* changed is reduced over the open headers, the frame is reset if
\* it is set, the render region is set, a double click picks.
SeqRenderGuiPanels ==
    /\ rt.pc = "idle"
    /\ InFrameLoop
    /\ \E toggle \in user.headers \cup {"none"} :
       LET open == IF toggle = "none" THEN headers
                   ELSE IF toggle \in headers THEN headers \ {toggle}
                   ELSE headers \cup {toggle}
       IN
       \E edits \in SUBSET {w \in user.widgets : HeaderOf[w] \in open} :
       /\ toggle = "none" \/ edits = {}
       /\ \E v \in IF "Max Iteration" \in edits THEN user.maxes \ {m_maxFrames}
                    ELSE {m_maxFrames},
             l \in IF "De-scaling" \in edits THEN user.levels \ {m_descalingLevel}
                    ELSE {m_descalingLevel},
             k \in IF "Rendering Pipeline" \in edits THEN Kinds \ {m_rndMethod}
                    ELSE {m_rndMethod},
             cu \in IF "CameraWidget" \in edits
                     THEN (user.cams \X Ups) \ {<<cam, up>>} ELSE {<<cam, up>>},
             r \in user.regions, pick \in user.picks :
          \E pc \in IF pick = "none" THEN {cam} ELSE user.cams :
          LET c == cu[1]
              u == cu[2]
              changed == ChangedOf(open, edits)
              s == IF "Rendering Pipeline" \in edits
                   THEN CreateRenderOf(k, [m_rndMethod |-> m_rndMethod, created |-> created])
                   ELSE [m_rndMethod |-> m_rndMethod, created |-> created]
              s1 == IF changed THEN ResetFrameOf(m_rtxState) ELSE m_rtxState
          IN /\ headers' = open
             /\ m_maxFrames' = v
             /\ m_descalingLevel' = l
             /\ m_rndMethod' = s.m_rndMethod
             /\ created' = s.created
             /\ gpuInFlight' = (gpuInFlight /\ s.m_rndMethod = m_rndMethod)
             /\ up' = u
             /\ cam' = ScreenPickingOf(pick, pc, c)
             /\ m_sunAndSky' =
                  [y_is_up |-> YIsUpOf(open, u, m_sunAndSky.y_is_up),
                   in_use |-> IF "Use Sun & Sky" \in edits
                              THEN 1 - m_sunAndSky.in_use ELSE m_sunAndSky.in_use]
             /\ m_rtxState' = SetRenderRegionOf(s1, m_renderRegion, r)
             /\ m_renderRegion' = r
             /\ since' = IF changed \/ Memcmp(RectWords(m_renderRegion), RectWords(r)) # 0
                         THEN NoneSince ELSE since
             /\ last' = [op |-> "renderGui", open |-> open,
                         edits |-> edits, resets |-> IF changed THEN 1 ELSE 0,
                         lowered |-> v < m_rtxState.frame /\ v < m_maxFrames,
                         moved |-> Memcmp(RectWords(m_renderRegion), RectWords(r)) # 0,
                         pick |-> pick]
    /\ UNCHANGED <<m_busy, refCam, rt, tasks, user, m_descaling, ran, m_inputs>>

\* Mutation of OnKeyboardActs: a release is handled as a press is.
OnKeyboardActs_OnRelease(busy, action) == ~busy

\* if (m_busy || action == GLFW_RELEASE) return;
OnKeyboardActs(busy, action) == ~(busy \/ action = "RELEASE")

\* Simulator::onKeyboard from call to return.
SeqOnKeyboard ==
    /\ rt.pc = "idle"
    /\ InFrameLoop
    /\ \E key \in user.keys, action \in {"PRESS", "RELEASE", "REPEAT"} :
       LET acts == OnKeyboardActs(m_busy, action)
       IN \E c \in IF acts /\ key \in {"HOME", "F", "SPACE"} THEN user.cams ELSE {cam},
             pick \in IF acts /\ key = "SPACE" THEN user.picks \ {"none"} ELSE {"none"} :
             /\ cam' = IF acts /\ key \in {"HOME", "F"} THEN c
                       ELSE IF acts /\ key = "SPACE" THEN ScreenPickingOf(pick, c, cam)
                       ELSE cam
             /\ m_rtxState' = IF acts /\ key = "R" THEN ResetFrameOf(m_rtxState)
                              ELSE m_rtxState
             /\ since' = IF acts /\ key = "R" THEN NoneSince ELSE since
             /\ last' = [op |-> "onKeyboard", key |-> key,
                         action |-> action, busy |-> m_busy,
                         pick |-> pick]
    /\ UNCHANGED <<m_busy, m_maxFrames, m_rndMethod, created, m_renderRegion, refCam,
                   gpuInFlight, rt, tasks, user, m_descaling, m_descalingLevel, ran,
                   m_sunAndSky, up, headers,
                   m_inputs>>

\* Simulator::updateUniformBuffer from call to return.
SeqUpdateUniformBuffer ==
    /\ rt.pc = "idle"
    /\ InFrameLoop
    /\ user.keys # {}
    /\ last' = [op |-> "updateUniformBuffer", busy |-> m_busy,
                cmds |-> UniformCmdsOf(m_busy)]
    /\ UNCHANGED <<m_busy, m_rtxState, m_maxFrames, m_rndMethod, created,
                   m_renderRegion, cam, refCam, gpuInFlight, rt, tasks, user,
                   m_descaling, m_descalingLevel, ran, since, m_sunAndSky, up, headers,
                   m_inputs>>

\* Simulator::loadAssets from call to return: m_busy = true, the device idle
\* wait, the task spawned.
SeqLoadAssets ==
    /\ rt.pc = "idle"
    /\ InFrameLoop
    /\ NumTasks < user.loads
    /\ \E f \in user.files :
          /\ tasks' = SetToBag({NewTask(f)})
          /\ last' = [op |-> "loadAssets", file |-> f]
    /\ m_busy' = TRUE
    /\ gpuInFlight' = FALSE
    /\ UNCHANGED <<m_rtxState, m_maxFrames, m_rndMethod, created, m_renderRegion,
                   cam, refCam, rt, user, m_descaling, m_descalingLevel, ran, since,
                   m_sunAndSky, up, headers,
                   m_inputs>>

\* The task's lambda from its first statement to m_busy = false, between two
\* handlers.
SeqTask ==
    /\ rt.pc = "idle"
    /\ \E r \in RunningTasks :
          LET kind == KindOfPath[r.sfile]
          IN /\ created' = IF kind = "scene" THEN [k \in Kinds |-> k = m_rndMethod]
                           ELSE created
             /\ last' = [op |-> "task", kind |-> kind]
             /\ tasks' = Ended(r)
    /\ m_rtxState' = ResetFrameOf(m_rtxState)
    /\ since' = NoneSince
    /\ m_busy' = FALSE
    /\ UNCHANGED <<m_maxFrames, m_rndMethod, m_renderRegion, cam, refCam, gpuInFlight,
                   rt, user, m_descaling, m_descalingLevel, ran, m_sunAndSky, up, headers,
                   m_inputs>>

HandlerNext ==
    \/ SeqSetup
    \/ SeqRenderGuiPanels
    \/ SeqOnKeyboard
    \/ SeqUpdateUniformBuffer
    \/ SeqLoadAssets
    \/ SeqTask
    \/ (InFrameLoop /\ SeqUpdateFrame)
    \/ (InFrameLoop /\ SeqRenderScene)

HandlerSpec == HandlerInit /\ [][HandlerNext]_vars

\* ------------------------------------- the mouse, one handler at a time
\* The mouse callbacks with the handlers above: a drag de-scales, a load may
\* start and end while a button is held.

Buttons == {"lmb", "rmb"}

\* What ImGui's io says it captures during a motion: nothing, the mouse
\* alone (the pointer is over a window or a widget), or mouse and keyboard.
Captures == {"none", "mouse", "both"}

\* The users of the mouse: one drags with two buttons over the viewport and
\* over the panels, sets the "De-scaling" level, drops files and presses
\* keys while they load.
MouseUsers ==
    { [loads |-> 0, cams |-> Cams, regions |-> {R800x600}, levels |-> 1..2,
       maxes |-> {SliderMaxFrames + 1}, steps |-> 2,
       headers |-> {"Ray Tracing"}, widgets |-> {"De-scaling"},
       picks |-> {"none"}, keys |-> {"R"}, files |-> {F_glb}] }

\* The state after construction.
MouseInit ==
    /\ m_busy = FALSE
    /\ m_rtxState = [frame |-> 0, size |-> <<0, 0>>]
    /\ m_maxFrames = SliderMaxFrames + 1
    /\ m_rndMethod = eNone
    /\ created = [k \in Kinds |-> FALSE]
    /\ m_renderRegion = NoRegion
    /\ cam = CamA
    /\ refCam = NoCam
    /\ gpuInFlight = FALSE
    /\ rt = RtIdle
    /\ tasks = EmptyBag
    /\ user \in MouseUsers
    /\ m_descaling = FALSE
    /\ m_descalingLevel = 1
    /\ ran = NoRun
    /\ since = [steps |-> 1, runs |-> 0]
    /\ m_sunAndSky = SunAndSkyInit
    /\ up = UpY
    /\ headers = {}
    /\ last = NoCall
    /\ m_inputs = {}

\* onMouseButton's tests: if (m_busy) return; then no button held, a
\* release, m_descaling set.
MouseButtonActs(busy, held, action, descaling) ==
    ~busy /\ held = {} /\ action = "RELEASE" /\ descaling

\* Simulator::onMouseButton from call to return: AppBase::onMouseButton
\* keeps m_inputs, then the release that ends the drag ends de-scaling and
\* resets the frame.
SeqOnMouseButton ==
    /\ rt.pc = "idle"
    /\ InFrameLoop
    /\ \E b \in Buttons, action \in {"PRESS", "RELEASE"} :
          LET held == IF action = "PRESS" THEN m_inputs \cup {b} ELSE m_inputs \ {b}
              acts == MouseButtonActs(m_busy, held, action, m_descaling)
          IN /\ (action = "PRESS") = (b \notin m_inputs)
             /\ m_inputs' = held
             /\ m_descaling' = IF acts THEN FALSE ELSE m_descaling
             /\ m_rtxState' = IF acts THEN ResetFrameOf(m_rtxState) ELSE m_rtxState
             /\ since' = IF acts THEN NoneSince ELSE since
             /\ last' = [op |-> "onMouseButton", button |-> b, action |-> action,
                         busy |-> m_busy]
    /\ UNCHANGED <<m_busy, m_maxFrames, m_rndMethod, created, m_renderRegion, cam,
                   refCam, gpuInFlight, rt, tasks, user, m_descalingLevel, ran,
                   m_sunAndSky, up, headers>>

\* Simulator::onMouseMotion from call to return: AppBase::onMouseMotion
\* moves the camera if a button is held and ImGui does not capture the
\* mouse; then, unless m_busy or ImGui captures the keyboard, a held button
\* switches de-scaling on.
SeqOnMouseMotion ==
    /\ rt.pc = "idle"
    /\ InFrameLoop
    /\ \E capture \in Captures :
       \E c \in IF m_inputs # {} /\ capture = "none" THEN user.cams \ {cam} ELSE {cam} :
          /\ cam' = c
          /\ m_descaling' = IF ~m_busy /\ capture # "both" /\ m_inputs # {}
                            THEN TRUE ELSE m_descaling
          /\ last' = [op |-> "onMouseMotion", capture |-> capture, busy |-> m_busy,
                      held |-> m_inputs # {}]
    /\ UNCHANGED <<m_busy, m_rtxState, m_maxFrames, m_rndMethod, created,
                   m_renderRegion, refCam, gpuInFlight, rt, tasks, user,
                   m_descalingLevel, ran, since, m_sunAndSky, up, headers, m_inputs>>

\* Simulator::onFileDrop from call to return: nothing while m_busy, else
\* loadAssets.
SeqOnFileDrop ==
    /\ rt.pc = "idle"
    /\ InFrameLoop
    /\ \E f \in user.files :
          /\ tasks' = IF m_busy THEN tasks ELSE SetToBag({NewTask(f)})
          /\ last' = [op |-> "onFileDrop", file |-> f, busy |-> m_busy]
    /\ m_busy' = TRUE
    /\ gpuInFlight' = (m_busy /\ gpuInFlight)
    /\ UNCHANGED <<m_rtxState, m_maxFrames, m_rndMethod, created, m_renderRegion,
                   cam, refCam, rt, user, m_descaling, m_descalingLevel, ran, since,
                   m_sunAndSky, up, headers, m_inputs>>

MouseNext ==
    \/ SeqSetup
    \/ SeqRenderGuiPanels
    \/ SeqOnKeyboard
    \/ SeqOnMouseButton
    \/ SeqOnMouseMotion
    \/ SeqOnFileDrop
    \/ SeqTask
    \/ (InFrameLoop /\ SeqUpdateFrame)
    \/ (InFrameLoop /\ SeqRenderScene)

MouseSpec == MouseInit /\ [][MouseNext]_vars

\* --------------------------------- the uniforms of a frame and the task
\* One frame of main's loop, updateFrame, updateUniformBuffer, renderScene,
\* with the statements of a load task between its calls: each of the two
\* functions reads m_busy for itself.

\* The user requests one load at a time, between two frames.
UniformUsers ==
    { [loads |-> 1, cams |-> {CamA}, regions |-> {R800x600}, counted |-> FALSE,
       files |-> {F_glb, F_hdr, F_txt}] }

\* The state after main's setup: a renderer is active.
UniformInit ==
    /\ m_busy = FALSE
    /\ m_rtxState = [frame |-> 0]
    /\ m_maxFrames = SliderMaxFrames + 1
    /\ m_rndMethod \in Kinds
    /\ created = [k \in Kinds |-> k = m_rndMethod]
    /\ m_renderRegion = R800x600
    /\ cam = CamA
    /\ refCam = CamA
    /\ gpuInFlight = FALSE
    /\ rt = RtIdle
    /\ tasks = EmptyBag
    /\ user \in UniformUsers
    /\ m_descaling = FALSE
    /\ m_descalingLevel = 1
    /\ ran = NoRun
    /\ since = NoneSince
    /\ m_sunAndSky = SunAndSkyInit
    /\ up = UpY
    /\ headers = {}
    /\ last = NoCall
    /\ m_inputs = {}

\* Simulator::updateFrame from call to return, first in the frame.
LoopUpdateFrame ==
    /\ rt.pc = "idle"
    /\ LET changed == CamChanged(refCam, cam)
       IN /\ m_rtxState' = AdvanceOf(IF changed THEN ResetFrameOf(m_rtxState)
                                      ELSE m_rtxState, m_maxFrames)
          /\ refCam' = IF changed THEN cam ELSE refCam
    /\ rt' = [RtIdle EXCEPT !.pc = AfterUpdateFrame]
    /\ last' = [op |-> "updateFrame"]
    /\ UNCHANGED <<m_busy, m_maxFrames, m_rndMethod, created, m_renderRegion, cam,
                   gpuInFlight, tasks, user, m_descaling, m_descalingLevel, ran, since,
                   m_sunAndSky, up, headers, m_inputs>>

\* Simulator::updateUniformBuffer from call to return, after updateFrame:
\* its read of m_busy and what it records.
LoopUpdateUniformBuffer ==
    /\ rt.pc = AfterUpdateFrame
    /\ last.op = "updateFrame"
    /\ last' = [op |-> "updateUniformBuffer", busy |-> m_busy,
                cmds |-> UniformCmdsOf(m_busy)]
    /\ UNCHANGED <<m_busy, m_rtxState, m_maxFrames, m_rndMethod, created,
                   m_renderRegion, cam, refCam, gpuInFlight, rt, tasks, user,
                   m_descaling, m_descalingLevel, ran, since, m_sunAndSky, up, headers,
                   m_inputs>>

\* Simulator::renderScene is called once updateUniformBuffer has returned.
LoopRenderSceneCall ==
    /\ last.op = "updateUniformBuffer"
    /\ RenderSceneCall

UniformNext ==
    \/ SeqLoadAssets
    \/ LoopUpdateFrame
    \/ LoopUpdateUniformBuffer
    \/ LoopRenderSceneCall
    \/ RsBusy
    \/ RsFrame
    \/ RsRun
    \/ \E r \in RunningTasks : TaskStep(r)
    \/ GpuComplete

UniformSpec == UniformInit /\ [][UniformNext]_vars

\* ----------------------------------------- the task's stores, unordered
\* m_busy is a plain bool and nothing orders the task's stores before the
\* store to it: a store becomes visible to the render thread some time after
\* the task has made it, stores to different objects in any order.

\* The stores of the lambda in program order, for a path of the given kind
\* and the active renderer.
StoresOf(kind, active) ==
    (IF kind = "scene"
     THEN << [loc |-> "frame", val |-> -1],
             [loc |-> "created", val |-> [k \in Kinds |-> FALSE]],
             [loc |-> "created", val |-> [k \in Kinds |-> k = active]] >>
     ELSE <<>>)
    \o << [loc |-> "frame", val |-> -1], [loc |-> "m_busy", val |-> FALSE] >>

\* The state in which loadAssets leaves the program, as LoadInit, with the
\* task's stores still to be made.
RelaxedInit ==
    /\ m_busy = TRUE
    /\ m_rtxState \in {[frame |-> f] : f \in 0..SliderMaxFrames}
    /\ m_maxFrames = SliderMaxFrames + 1
    /\ m_rndMethod \in Kinds
    /\ created = [k \in Kinds |-> k = m_rndMethod]
    /\ m_renderRegion = R800x600
    /\ cam = CamA
    /\ refCam = CamA
    /\ gpuInFlight = FALSE
    /\ rt = RtIdle
    /\ \E f \in {F_glb, F_hdr, F_txt} :
          tasks = SetToBag({[pc |-> 0, sfile |-> f, kind |-> KindOfPath[f],
                             buffer |-> <<>>]})
    /\ user = [loads |-> 1, cams |-> {CamA}, regions |-> {R800x600}, counted |-> FALSE]
    /\ m_descaling = FALSE
    /\ m_descalingLevel = 1
    /\ ran = NoRun
    /\ since = NoneSince
    /\ m_sunAndSky = SunAndSkyInit
    /\ up = UpY
    /\ headers = {}
    /\ last = NoCall
    /\ m_inputs = {}

\* s without its i-th element.
Without(s, i) == SubSeq(s, 1, i - 1) \o SubSeq(s, i + 1, Len(s))

\* The task makes its next store; the store is not yet visible.
RlxStore(r) ==
    /\ r.pc < Len(StoresOf(r.kind, m_rndMethod))
    /\ tasks' = Moved(r, [r EXCEPT !.pc = @ + 1,
                                   !.buffer = Append(@, StoresOf(r.kind, m_rndMethod)[r.pc + 1])])
    /\ UNCHANGED <<m_busy, m_rtxState, m_maxFrames, m_rndMethod, created,
                   m_renderRegion, cam, refCam, gpuInFlight, rt, user, seqVars>>

\* A store of the task becomes visible to the render thread: any store that
\* has no earlier store to the same object before it.
RlxFlush(r) ==
    \E i \in 1..Len(r.buffer) :
        LET w == r.buffer[i]
        IN /\ \A j \in 1..(i - 1) : r.buffer[j].loc # w.loc
           /\ m_busy' = IF w.loc = "m_busy" THEN w.val ELSE m_busy
           /\ m_rtxState' = IF w.loc = "frame" THEN [m_rtxState EXCEPT !.frame = w.val]
                            ELSE m_rtxState
           /\ created' = IF w.loc = "created" THEN w.val ELSE created
           /\ tasks' = IF Len(r.buffer) = 1 /\ r.pc = Len(StoresOf(r.kind, m_rndMethod))
                       THEN Ended(r)
                       ELSE Moved(r, [r EXCEPT !.buffer = Without(@, i)])
           /\ UNCHANGED <<m_maxFrames, m_rndMethod, m_renderRegion, cam, refCam,
                          gpuInFlight, rt, user, seqVars>>

\* renderScene reads m_busy and, having found it false, the frame and the
\* renderer: what it reads and which stores of the task it has not seen.
RlxRenderScene ==
    /\ rt.pc = "idle"
    /\ last' = [op |-> "renderScene", busy |-> m_busy,
                frame |-> m_rtxState.frame, created |-> created,
                behind |-> IF RunningTasks = {} THEN <<>>
                           ELSE (CHOOSE r \in RunningTasks : TRUE).buffer]
    /\ UNCHANGED <<m_busy, m_rtxState, m_maxFrames, m_rndMethod, created,
                   m_renderRegion, cam, refCam, gpuInFlight, rt, tasks, user,
                   m_descaling, m_descalingLevel, ran, since, m_sunAndSky, up, headers,
                   m_inputs>>

RelaxedNext ==
    \/ \E r \in RunningTasks : RlxStore(r)
    \/ \E r \in RunningTasks : RlxFlush(r)
    \/ RlxRenderScene

RelaxedSpec == RelaxedInit /\ [][RelaxedNext]_vars

\* Scheduling: the render thread does not stop inside a handler (the device
\* idle waits return, the driver completes submitted work), and the detached
\* threads are scheduled.
LiveSpec ==
    /\ Spec
    /\ WF_vars(RtStep)
    /\ WF_vars(\E r \in RunningTasks : TaskStep(r))

\* ================================================================ properties
\* Everything of the program's state but the render thread's position.
shared == <<m_busy, m_rtxState, m_maxFrames, m_rndMethod, created,
            m_renderRegion, cam, refCam, gpuInFlight, tasks>>

\* The render thread takes a step from position p.
RtStepAt(p) == rt.pc = p /\ rt' # rt

\* C1: busy exclusion. renderScene never stands at the dispatch to the
\* renderer's run() (nor at the frame test before it) while m_busy is true; a
\* renderScene call made while m_busy is true goes to the busy window only,
\* and from there returns having changed nothing.
C1_CallStep ==
    (rt.pc = AfterUpdateFrame /\ rt' # rt /\ m_busy)
        => rt'.pc = "rs_busy"
C1_BusyWindowStep ==
    RtStepAt("rs_busy") => (rt' = RtIdle /\ UNCHANGED shared)
C1_BusyExclusion ==
    /\ [](rt.pc \in {"rs_frame", "rs_run"} => ~m_busy)
    /\ [][C1_CallStep /\ C1_BusyWindowStep]_vars

\* renderScene was called while a load is running and shows the busy window.
C1_Witness == rt.pc = "rs_busy" /\ m_busy /\ NumTasks > 0

\* C2: alternating exclusive ownership. While m_busy is true the render
\* thread takes no step that touches renderer or scene GPU objects: no
\* destroy() or create() of a renderer in createRender, no useAnyHit, no
\* picking, no offscreen update in onResize, no dispatch in renderScene.
GpuTouchPcs == {"cr_destroy", "cr_create", "gui_anyhit", "pk_run", "rz_update", "rs_run"}
C2_ExclusiveOwnership ==
    [][(m_busy /\ rt' # rt) => rt.pc \notin GpuTouchPcs]_vars

\* C3: at most one load session is active: two background load tasks never
\* run at the same time.
C3_OneLoadSession == NumTasks <= 1

\* C4: FrameState is never mutated concurrently: the render thread is never
\* between the read and the write of m_rtxState.frame++, nor about to
\* resetFrame in onResize, while a background task is about to write
\* m_rtxState.frame in its own resetFrame.
C4_NoConcurrentMutation ==
    ~(/\ rt.pc \in {"uf_inc", "rz_update"}
      /\ \E r \in RunningTasks : r.pc \in {"load", "reset"})

\* A load task has done its last statement before m_busy = false.
AtClear(r) == r.pc = "clear"

\* C5 as stated: when a load session is about to set m_busy = false, it has
\* reset FrameState exactly once, so that one reset lies between the load and
\* the next dispatch to run().
C5_ExactlyOneReset ==
    \A r \in RunningTasks : AtClear(r) => r.resets = 1

\* C5 as amended: every load session resets FrameState before it sets
\* m_busy = false, and the reset is its last statement before that: once for
\* an HDR file or an unsupported extension, twice for a scene file (inside
\* loadScene and again at the end of the task); before that point it has
\* reset at most once.
ResetsOf(k) == IF k = "scene" THEN 2 ELSE 1
C5_ResetsBeforeClear ==
    \A r \in RunningTasks :
        /\ AtClear(r) => r.resets = ResetsOf(r.kind)
        /\ ~AtClear(r) => r.resets < ResetsOf(IF r.pc = "start" THEN "other" ELSE r.kind)

\* A scene load is about to clear m_busy after its two resets.
C5_Witness ==
    \E r \in RunningTasks : AtClear(r) /\ r.kind = "scene" /\ r.resets = 2 /\ m_busy

\* C6: every load session completes: whenever m_busy is true it eventually
\* becomes false again, whatever the extension of the file.
C6_LoadCompletes == m_busy ~> ~m_busy

\* The load of a file with an unsupported extension is about to complete.
C6_Witness ==
    /\ m_busy
    /\ \E r \in RunningTasks : AtClear(r) /\ r.kind = "other"

\* C7: load start ordering. A background task appears only by the spawn of
\* loadAssets, and at that step the calling thread has set m_busy = true,
\* then waited for the device to be idle, in this order, and no GPU work is
\* in flight; every task that runs was spawned that way.
BusyThenIdle == << <<"busy">>, <<"idle">> >>
C7_SpawnStep ==
    (NumTasks' > NumTasks) =>
        (rt.pc = "la_spawn" /\ rt.log = BusyThenIdle /\ ~gpuInFlight)
C7_LoadStartOrder ==
    /\ [](rt.pc = "la_spawn" => (rt.log = BusyThenIdle /\ ~gpuInFlight))
    /\ [][C7_SpawnStep]_vars

\* loadAssets is about to spawn the task: m_busy is set, the idle wait done.
C7_Witness ==
    rt.pc = "la_spawn" /\ rt.log = BusyThenIdle /\ m_busy /\ created[m_rndMethod]

\* C8: hot-swap ordering. createRender leaving an active kind for another
\* one waits for the device to be idle, then destroys the old renderer (with
\* no GPU work in flight), then marks the new kind active, then creates it.
C8_DestroyStep ==
    RtStepAt("cr_destroy") =>
        (rt.log = << <<"idle">> >> /\ ~gpuInFlight /\ rt.method # m_rndMethod)
C8_SetStep ==
    RtStepAt("cr_set") =>
        IF m_rndMethod = eNone THEN rt.log = <<>>
        ELSE rt.log = << <<"idle">>, <<"destroy", m_rndMethod>> >>
C8_CreateStep ==
    RtStepAt("cr_create") =>
        /\ m_rndMethod = rt.method
        /\ \/ rt.log = << <<"activate", rt.method>> >>
           \/ \E old \in Kinds \ {rt.method} :
                 rt.log = << <<"idle">>, <<"destroy", old>>, <<"activate", rt.method>> >>
C8_HotSwapOrder == [][C8_DestroyStep /\ C8_SetStep /\ C8_CreateStep]_vars

\* createRender is about to create the new renderer after a switch.
C8_Witness == rt.pc = "cr_create" /\ Len(rt.log) = 3

\* C9: createRender(kind) with the active kind is a no-op: the call returns
\* at once with no idle wait, no destroy() and no create(), the active kind
\* and every renderer unchanged; the body of createRender only ever runs for
\* a kind other than the active one.
C9_CheckStep ==
    (RtStepAt("cr_check") /\ rt.method = m_rndMethod) =>
        (rt'.pc = rt.ret /\ rt'.log = <<>> /\ UNCHANGED shared)
C9_SameKindNoOp ==
    /\ [](rt.pc \in {"cr_idle", "cr_destroy", "cr_set"} => rt.method # m_rndMethod)
    /\ [][C9_CheckStep]_vars

\* createRender is called with the active kind.
C9_Witness ==
    rt.pc = "cr_check" /\ rt.method = m_rndMethod /\ created[m_rndMethod]

\* C10: monotonic accumulation. An updateFrame that sees the camera it saw
\* last leaves the frame alone until its test; with frame < m_maxFrames and
\* no reset between the read and the write the frame grows by exactly one and
\* stays within m_maxFrames; with frame >= m_maxFrames updateFrame returns
\* with the frame unchanged; between handlers the frame never exceeds
\* m_maxFrames.
C10_CallStep ==
    (rt.pc = "idle" /\ rt'.pc = "uf_test" /\ cam = refCam) =>
        UNCHANGED m_rtxState
C10_TestStep ==
    RtStepAt("uf_test") =>
        /\ UNCHANGED m_rtxState
        /\ IF m_rtxState.frame < m_maxFrames
           THEN rt'.pc = "uf_inc" /\ rt'.local = m_rtxState.frame
           ELSE rt'.pc = AfterUpdateFrame
C10_IncStep ==
    (RtStepAt("uf_inc") /\ rt.local = m_rtxState.frame) =>
        /\ m_rtxState'.frame = m_rtxState.frame + 1
        /\ m_rtxState'.frame <= m_maxFrames
C10_MonotonicAccumulation ==
    /\ [](rt.pc \in {"idle", AfterUpdateFrame} => m_rtxState.frame <= m_maxFrames)
    /\ [][C10_CallStep /\ C10_TestStep /\ C10_IncStep]_vars

\* updateFrame finds the frame at m_maxFrames and is about to leave it there.
C10_Witness ==
    rt.pc = "uf_test" /\ m_rtxState.frame = m_maxFrames /\ cam = refCam

\* updateFrame has reset the frame for a camera change and returns.
ReturnsAfterReset ==
    /\ rt.pc \in {"uf_test", "uf_inc"}
    /\ rt.log = << <<"reset">> >>
    /\ rt'.pc = AfterUpdateFrame

C11_TestStep ==
    (RtStepAt("uf_test") /\ rt.log = << <<"reset">> >>) =>
        (rt'.pc = "uf_inc" /\ rt'.local = -1)
C14_NoDispatchOfMinusOne ==
    rt.pc = "rs_run" => m_rtxState.frame >= 0

\* The one task of a load session running alone, now and after the step.
TheTask == CHOOSE r \in RunningTasks : TRUE
TheTaskNext == CHOOSE r \in BagToSet(tasks') : TRUE
Starts == NumTasks = 1 /\ TheTask.pc = "start" /\ tasks' # tasks

\* C19: extension dispatch. A path with extension .gltf or .glb takes the
\* task to the scene load and never to the HDR load; a path with extension
\* .hdr takes it to the HDR load and never to the scene load; any other path
\* takes it straight to the final reset, and the session has then called
\* neither.
C19_StartStep ==
    Starts =>
        /\ TheTask.sfile \in ScenePaths =>
              (TheTaskNext.pc = "load" /\ TheTaskNext.kind = "scene")
        /\ TheTask.sfile \in HdrPaths =>
              (TheTaskNext.pc = "hdr" /\ TheTaskNext.kind = "hdr")
        /\ TheTask.sfile \in OtherPaths =>
              (TheTaskNext.pc = "reset" /\ TheTaskNext.kind = "other")
C19_Calls ==
    \A r \in RunningTasks :
        /\ r.kind = "scene" => r.pc \in {"load", "destroy", "create", "reset", "clear"}
        /\ r.kind = "hdr" => r.pc \in {"hdr", "reset", "clear"}
        /\ r.kind = "other" => r.pc \in {"reset", "clear"}
        /\ AtClear(r) =>
              r.calls = CASE r.kind = "scene" -> <<"loadScene", "destroy", "create">>
                          [] r.kind = "hdr" -> <<"loadEnvironmentHdr", "updateHdrDescriptors">>
                          [] OTHER -> <<>>
C19_ExtensionDispatch == []C19_Calls /\ [][C19_StartStep]_vars

\* A scene load has gone through the scene path and is about to end.
C19_Witness ==
    \E r \in RunningTasks :
        AtClear(r) /\ r.kind = "scene" /\ r.calls = <<"loadScene", "destroy", "create">>

\* A load session with an unsupported path is running.
Unsupported == \E r \in RunningTasks : r.kind = "other"

\* C20 as stated: a load session with an unsupported path changes no state:
\* the frame and every renderer are after each of its steps what they were
\* before.
C20_NoStateChange ==
    [][Unsupported => UNCHANGED <<m_rtxState, m_rndMethod, created>>]_vars

\* C20 as amended: a load session with an unsupported path calls neither
\* load path and leaves scene, environment and renderers alone, but it
\* resets FrameState once before it sets m_busy = false: run alone, it ends
\* with m_busy false and the frame at -1.
C20_Step ==
    Unsupported =>
        /\ UNCHANGED <<m_rndMethod, created, m_renderRegion, cam, refCam, gpuInFlight>>
        /\ m_rtxState' \in {m_rtxState, ResetFrameOf(m_rtxState)}
C20_AtEnd ==
    /\ \A r \in RunningTasks :
          (r.kind = "other" /\ AtClear(r)) =>
              (r.calls = <<>> /\ r.resets = 1 /\ m_rtxState.frame = -1 /\ m_busy)
    /\ NumTasks = 0 => (~m_busy /\ m_rtxState.frame = -1)
C20_OnlyFrameReset == []C20_AtEnd /\ [][C20_Step]_vars

\* The session of an unsupported path is about to clear m_busy, the frame
\* reset, nothing loaded.
C20_Witness ==
    \E r \in RunningTasks :
        r.kind = "other" /\ AtClear(r) /\ r.calls = <<>> /\ m_rtxState.frame = -1

Min(a, b) == IF a < b THEN a ELSE b

\* C12 as stated: after at least maxFrames + 1 updateFrame calls since the
\* last reset (the frame then being -1), the frame is maxFrames - 1.
C12_CappedAtMaxMinusOne ==
    since.steps >= m_maxFrames + 1 => m_rtxState.frame = m_maxFrames - 1

\* C12 (amended): after n updateFrame calls since the last reset the frame is
\* min(n - 1, maxFrames); after at least maxFrames + 1 calls it is maxFrames,
\* the value at which it stops advancing (for maxFrames = 10 and 12 calls, 10).
C12_CappedAtMax ==
    /\ m_rtxState.frame = Min(since.steps - 1, m_maxFrames)
    /\ since.steps >= m_maxFrames + 1 => m_rtxState.frame = m_maxFrames

C12_Witness ==
    m_maxFrames = 10 /\ since.steps = 12 /\ m_rtxState.frame = 10

\* C13: run() is not reached in a renderScene call that finds the frame at
\* or above maxFrames, and since the last reset the renderer has been
\* dispatched at most maxFrames times.
C13_DispatchStep == since'.runs > since.runs => since'.runs <= m_maxFrames

C13_FrameBudget ==
    /\ [](rt.pc = "rs_run" => m_rtxState.frame < m_maxFrames)
    /\ [][C13_DispatchStep]_vars

\* C15: setRenderRegion called with a rectangle that differs from the stored
\* one in any component of offset or extent resets the frame to -1, and the
\* rectangle is stored; called with the stored rectangle it resets nothing.
C15_Call ==
    \A r \in user.regions :
        SetRenderRegionOf(m_rtxState, m_renderRegion, r) =
            IF r # m_renderRegion THEN [m_rtxState EXCEPT !.frame = -1] ELSE m_rtxState

C15_Step ==
    m_renderRegion' # m_renderRegion =>
        /\ m_renderRegion' \in user.regions
        /\ m_rtxState'.frame = -1
        /\ since' = NoneSince

C15_RegionChangeReset == []C15_Call /\ [][C15_Step]_vars

C15_Witness ==
    /\ m_renderRegion \in {R801x600, R800x601, MovedX, MovedY}
    /\ m_rtxState.frame = -1
    /\ ran.frame >= 1
    /\ m_maxFrames = SliderMaxFrames
    /\ refCam = cam

\* C16: updateFrame resets the frame if and only if the camera's matrix or
\* field of view differs from the cached values; after a detected change the
\* cache holds the current values, so the next call with the same camera
\* resets nothing; an unchanged camera leaves the cache and only advances.
C16_UpdateFrameStep ==
    (rt.pc = "idle" /\ rt'.pc = AfterUpdateFrame) =>
        IF refCam.matrix # cam.matrix \/ refCam.fov # cam.fov
        THEN /\ m_rtxState'.frame = 0
             /\ since' = [steps |-> 1, runs |-> 0]
             /\ refCam' = cam
             /\ ~CamChanged(refCam', cam')
        ELSE /\ refCam' = refCam
             /\ m_rtxState'.frame = IF m_rtxState.frame < m_maxFrames
                                    THEN m_rtxState.frame + 1 ELSE m_rtxState.frame
             /\ since'.steps = since.steps + 1

C16_CameraChangeDetection ==
    /\ [](rt.pc = AfterUpdateFrame => refCam = cam)
    /\ [][C16_UpdateFrameStep]_vars

C16_Witness ==
    /\ rt.pc = AfterUpdateFrame
    /\ refCam = CamC
    /\ since = [steps |-> 1, runs |-> 0]
    /\ ran.frame >= 1

Dispatches == since'.runs > since.runs

\* C17: the size a dispatch passes to run() and stores in the push state is
\* (w div d, h div d) of the region's extent (w, h) and the de-scaling level
\* d >= 1 while de-scaling is active, and exactly (w, h) while it is not.
C17_DispatchStep ==
    Dispatches =>
        LET e == m_renderRegion.extent
            d == m_descalingLevel
        IN /\ d >= 1
           /\ ran'.size = m_rtxState'.size
           /\ ran'.size = IF m_descaling THEN <<e.width \div d, e.height \div d>>
                                         ELSE <<e.width, e.height>>

C17_DescaleArithmetic == [][C17_DispatchStep]_vars

C17_Witness ==
    /\ m_renderRegion = FullHD
    /\ m_descaling /\ m_descalingLevel = 4
    /\ ran.size = <<256, 192>>
    /\ m_rtxState.size = <<256, 192>>

\* C18: for a region extent with width >= 1 and height >= 1 and a de-scaling
\* level in 1..8, both dimensions of the size a dispatch passes to run() are
\* at least 1.
C18_DispatchStep ==
    ( /\ Dispatches
      /\ m_renderRegion.extent.width >= 1 /\ m_renderRegion.extent.height >= 1
      /\ m_descalingLevel \in 1..MaxDescalingLevel )
    => (ran'.size[1] >= 1 /\ ran'.size[2] >= 1)

C18_NeverZeroArea == [][C18_DispatchStep]_vars

\* The statements a task has run, loadScene spelled out.
RECURSIVE Statements(_)
Statements(calls) ==
    IF calls = <<>> THEN <<>>
    ELSE (IF Head(calls) = "loadScene" THEN LoadSceneBody ELSE <<Head(calls)>>)
         \o Statements(Tail(calls))

IsPrefix(a, b) == Len(a) <= Len(b) /\ a = SubSeq(b, 1, Len(a))

ScenePathOrder ==
    <<"m_scene.load", "m_accelStruct.create", "m_picker.setTlas", "resetFrame",
      "destroy", "create">>

\* C21: a scene load parses the scene, then rebuilds the acceleration
\* structure, then destroys the GPU state of every renderer, then creates the
\* active renderer's again, in that order and all while m_busy is set; when
\* it is about to clear m_busy the renderers with GPU state are the active one.
C21_Order ==
    \A r \in RunningTasks :
        r.kind = "scene" =>
            /\ m_busy
            /\ IsPrefix(Statements(r.calls), ScenePathOrder)
            /\ AtClear(r) =>
                  /\ Statements(r.calls) = ScenePathOrder
                  /\ created = [k \in Kinds |-> k = m_rndMethod]

C21_Step ==
    \A r \in RunningTasks :
        /\ (r.pc = "destroy" /\ tasks' # tasks) =>
              (created' = [k \in Kinds |-> FALSE] /\ m_busy')
        /\ (r.pc = "create" /\ tasks' # tasks) =>
              (created' = [k \in Kinds |-> k = m_rndMethod] /\ m_busy')
        /\ (m_busy /\ ~m_busy') => AtClear(r)

HdrSession == \E r \in RunningTasks : r.kind = "hdr"

\* C22: an HDR load calls destroy() and create() on no renderer and leaves
\* the active kind and the renderers' GPU state as they are; what it calls is
\* loadEnvironmentHdr and updateHdrDescriptors.
C22_Calls ==
    \A r \in RunningTasks :
        r.kind = "hdr" =>
            /\ \A i \in 1..Len(r.calls) :
                  r.calls[i] \in {"loadEnvironmentHdr", "updateHdrDescriptors"}
            /\ r.pc \notin {"load", "destroy", "create"}
            /\ created = [k \in Kinds |-> k = m_rndMethod]

C22_Step == HdrSession => UNCHANGED <<m_rndMethod, created>>

HandlerStep(op) == rt' = rt /\ last'.op = op

\* The widgets whose panel reports a change to SimGUI::render.
Reporting == Widgets \ {"Brightness"}

\* C23 as stated: a GUI pass resets the frame if and only if some control,
\* the tonemapper's included, was changed in the pass.
C23_AnyControlResets ==
    last.op = "renderGui" => (last.resets = 1 <=> last.edits # {})

\* C23: a GUI pass calls resetFrame once if a widget of the camera, ray
\* tracing or environment panel was changed in the pass, however many were,
\* and not at all otherwise; a change of a tonemapper widget alone resets
\* nothing.
C23_Reduction ==
    last.op = "renderGui" =>
        last.resets = IF last.edits \cap Reporting # {} THEN 1 ELSE 0

C23_Step ==
    HandlerStep("renderGui") =>
        m_rtxState'.frame = IF last'.resets = 1 \/ last'.moved THEN -1
                            ELSE m_rtxState.frame

C23_OrReduction == []C23_Reduction /\ [][C23_Step]_vars

C23_Witness ==
    /\ last.op = "renderGui"
    /\ last.edits = {"Brightness"}
    /\ last.resets = 0
    /\ m_rtxState.frame >= 0

\* C24: once a GUI pass has lowered "Max Iteration" below the current frame
\* and changed nothing else, no dispatch follows until another handler runs.
C24_Step ==
    (/\ last.op = "renderGui"
     /\ last.lowered
     /\ last.edits = {"Max Iteration"}
     /\ ~last.moved) => ~Dispatches

C24_RenderingStops == [][C24_Step]_vars

\* C25: onKeyboard resets the frame to -1 when the key is R, the action is
\* not a release and m_busy is false, and leaves the push state as it is for
\* every other key (Home, F and Space included), on a release and while
\* m_busy is true.
C25_Step ==
    HandlerStep("onKeyboard") =>
        m_rtxState' = IF last'.key = "R" /\ last'.action # "RELEASE" /\ ~last'.busy
                      THEN ResetFrameOf(m_rtxState) ELSE m_rtxState

C25_KeyboardReset == [][C25_Step]_vars

C25_Witness ==
    /\ last.op = "onKeyboard"
    /\ last.key = "R" /\ last.action = "PRESS" /\ ~last.busy
    /\ m_rtxState.frame = -1
    /\ ran # NoRun

\* C26: a pick that hits nothing changes nothing: after Space the camera,
\* the push state and every other variable of the program are as before, and
\* a double click's miss leaves the camera where the pass had it.
C26_Step ==
    /\ (HandlerStep("onKeyboard") /\ last'.pick = "miss") =>
          UNCHANGED <<m_busy, m_rtxState, m_maxFrames, m_rndMethod, created,
                      m_renderRegion, cam, refCam, gpuInFlight, tasks,
                      m_descaling, m_descalingLevel, m_sunAndSky, up, headers>>
    /\ (/\ HandlerStep("renderGui")
        /\ last'.pick = "miss"
        /\ "CameraWidget" \notin last'.edits) => cam' = cam

C26_PickMiss == [][C26_Step]_vars

C26_Witness ==
    /\ last.op = "onKeyboard"
    /\ last.key = "SPACE" /\ last.pick = "miss"
    /\ m_rtxState.frame >= 1
    /\ cam = CamB

\* C27: at every dispatch m_sunAndSky.y_is_up is 1 exactly if the camera's
\* up vector has y = 1.
C27_Step ==
    Dispatches => m_sunAndSky.y_is_up = (IF up[2] = 1 THEN 1 ELSE 0)

C27_YIsUpAtDispatch == [][C27_Step]_vars

\* C28: an updateUniformBuffer call that finds m_busy true records nothing
\* into the command buffer, neither the camera update nor the copy of
\* m_sunAndSky.
C28_SkippedWhileBusy ==
    (last.op = "updateUniformBuffer" /\ last.busy) => last.cmds = <<>>

C28_Witness ==
    /\ last.op = "updateUniformBuffer"
    /\ last.busy
    /\ last.cmds = <<>>
    /\ NumTasks = 1

\* C30: between two handlers, whatever createRender calls and completed
\* loads have run since construction, the renderers with created GPU state
\* are the active one and no other, and none while no renderer is active.
C30_OnlyActiveCreated ==
    \A k \in Kinds : created[k] <=> (k = m_rndMethod)

C30_Witness ==
    /\ last.op = "task"
    /\ last.kind = "scene"
    /\ m_rndMethod = eRayQuery
    /\ created[eRayQuery] /\ ~created[eRtxPipeline]
    /\ headers = {"Ray Tracing"}

\* C29: when the render thread reads m_busy as false, every store the task
\* made before it cleared m_busy is visible to it: the frame it reads is the
\* reset one, the renderers it finds created are the active one alone.
C29_VisibleOnceIdle ==
    (last.op = "renderScene" /\ ~last.busy) =>
        /\ last.behind = <<>>
        /\ last.frame = -1
        /\ last.created = [k \in Kinds |-> k = m_rndMethod]

\* The render thread is between two handlers of the frame loop.
BetweenHandlers == rt.pc \in {"idle", AfterUpdateFrame}

\* C31: whenever a handler has returned, -1 <= frame <= m_maxFrames, whatever
\* frames, resets, load tasks and "Max Iteration" changes came before; the
\* frame is never below -1 inside a handler either.
C31_FrameBounds ==
    /\ m_rtxState.frame >= -1
    /\ BetweenHandlers => m_rtxState.frame <= m_maxFrames

\* The frame has reached a "Max Iteration" the user had lowered, while a load
\* runs.
C31_Witness ==
    /\ BetweenHandlers
    /\ m_rtxState.frame = m_maxFrames
    /\ m_maxFrames < SliderMaxFrames + 1
    /\ NumTasks >= 1

C32_Step ==
    (Dispatches /\ ran # NoRun /\ ran'.size # ran.size) => ran'.frame = 0

C32_ResolutionChangeRestarts == [][C32_Step]_vars

\* C33: with no mouse button held (every press has had its release
\* delivered) m_descaling is false.
C33_ConfinedToDrag == m_inputs = {} => ~m_descaling

\* C36: a call of onKeyboard, onMouseMotion, onMouseButton or onFileDrop
\* made while m_busy is true leaves the frame, m_descaling, the camera and
\* the load session as they are.
C36_Step ==
    (/\ rt' = rt
     /\ last'.op \in {"onKeyboard", "onMouseMotion", "onMouseButton", "onFileDrop"}
     /\ last'.busy) =>
        UNCHANGED <<m_rtxState, m_descaling, cam, tasks, m_busy>>

C36_InertWhileBusy == [][C36_Step]_vars

\* C37: a GUI pass that switches the active renderer through createRender
\* resets the frame in the same pass (the frame is -1 when the pass returns),
\* and the first dispatch after that pass carries frame index 0.
C37_Step ==
    /\ (HandlerStep("renderGui") /\ m_rndMethod' # m_rndMethod) =>
          /\ "Rendering Pipeline" \in last'.edits
          /\ last'.resets = 1
          /\ m_rtxState'.frame = -1
    /\ (/\ Dispatches
        /\ last.op = "renderGui"
        /\ "Rendering Pipeline" \in last.edits
        /\ since.runs = 0) => ran'.frame = 0

C34_FreshUniforms ==
    rt.pc = "rs_run" =>
        /\ last.op = "updateUniformBuffer"
        /\ ~last.busy
        /\ last.cmds = <<"updateCamera", "vkCmdUpdateBuffer">>

====
